---- MODULE Spec2Model ----
(***************************************************************************)
(* Point-of-sale backend (src/main.py, src/schemas.py): product creation,  *)
(* stock adjustment and the sale-creation workflow of create_sale.         *)
(*                                                                         *)
(* Money.  Amounts are exact integers counted in mills (1/1000 of the      *)
(* currency unit); a value rounded to 2 decimals is a multiple of 10.      *)
(* Product prices are drawn from multiples of 125 mills (eighths), which   *)
(* a binary float holds exactly, so that price * qty is exact and Python's *)
(* round(x, 2) is round-half-to-even of the exact value.  Where an operand *)
(* of round() is not exactly representable and the exact value lies on a   *)
(* midpoint, the direction depends on the representation error: both       *)
(* neighbours are possible outcomes (RoundDiff).                           *)
(*                                                                         *)
(* Identities.  Product ids are 1, 2, ... in insertion order; BadId is a   *)
(* string that ObjectId() rejects; every other id is well formed.          *)
(*                                                                         *)
(* Steps.  A handler is cut at its store operations: one step per          *)
(* find_one / insert / update_one, the grain at which overlapping calls    *)
(* would interleave.  Under Spec and SpecStock one call runs at a time.    *)
(* An insert of a sale or a stock update of the deduction loop may raise;  *)
(* the exception ends the call with a 500.                                 *)
(***************************************************************************)
EXTENDS Integers, Sequences, FiniteSets

\* ---------------------------------------------------------------- bounds
MaxProducts == 2
MaxLines == 2
MaxSales == 1
MaxStock == 3
MaxAdjust == 1

Procs == {1, 2}
Quantities == {-1, 0, 1, 3}
Deltas == {-1, 1}
Paids == {-1000, 125, 5000, 10000}

\* GET /api/products?q=: no query, or a query in lower case
Queries == {"", "a1"}
\* GET /api/sales?limit=
Limits == {1, 50}

BadId == 0
PidInputs == 0 .. (MaxProducts + 1)

\* db, products, sales: the store.  call: the handlers in progress.
\* ledger (history): per product, the stock it was created with, the sum of
\* the deltas of the stock adjustments applied to it, and the quantities of
\* persisted sale items whose decrement a store failure kept from running.
VARIABLES db, products, sales, call, ledger

vars == <<db, products, sales, call, ledger>>

\* ------------------------------------------------------------ pure parts
\* round(x, 2) of an exactly represented x: nearest multiple of 10 mills,
\* midpoints to the even cent.
Round2(x) ==
    LET q == x \div 10
        r == x % 10
    IN  IF r < 5 THEN 10 * q
        ELSE IF r > 5 THEN 10 * (q + 1)
        ELSE IF q % 2 = 0 THEN 10 * q ELSE 10 * (q + 1)

\* A mills amount that a binary float holds exactly.
BinaryExact(x) == x % 125 = 0

\* round(a - b, 2): the possible results.
RoundDiff(a, b) ==
    LET d == a - b
    IN  IF d % 10 = 5 /\ ~(BinaryExact(a) /\ BinaryExact(b))
        THEN {d - 5, d + 5}
        ELSE {Round2(d)}

\* faulty variant: no product id is taken for malformed
WellFormedAny(pid) == TRUE

\* ObjectId(pid) raises for a malformed string.
WellFormed(pid) == pid # BadId

\* faulty variant: the lookup forgets the "active" filter
FindActiveAny(oid) == {i \in 1..Len(products) : products[i]._id = oid}

\* find_one({"_id": oid, "active": True})
FindActive(oid) ==
    {i \in 1..Len(products) : products[i]._id = oid /\ products[i].active}

\* find({"_id": oid})
FindById(oid) == {i \in 1..Len(products) : products[i]._id = oid}

\* faulty variant: the SKU check looks at active products only
FindBySkuActive(sku) ==
    {i \in 1..Len(products) : products[i].sku = sku /\ products[i].active}

\* find({"sku": sku})
FindBySku(sku) == {i \in 1..Len(products) : products[i].sku = sku}

\* faulty variant: the stock check is off by one
InsufficientOffByOne(prod, qty) == prod.stock < qty - 1

\* int(prod.get("stock", 0)) < qty
Insufficient(prod, qty) == prod.stock < qty

\* faulty variant: the line amount is not rounded
SubtotalUnrounded(price, qty) == price * qty

\* subtotal = round(price * qty, 2)
Subtotal(price, qty) == Round2(price * qty)

\* total = round(total, 2)
FinalTotal(running) == Round2(running)

\* faulty variant: the operands of the payment check are swapped
UnderpaidSwapped(paid, total) == total < paid

\* request.paid < total
Underpaid(paid, total) == paid < total

\* schemas.Product field constraints
ValidProduct(p) == p.price >= 0 /\ p.stock >= 0

\* faulty variant: a line item of any quantity is accepted
ValidSaleItemAnyQuantity(it) == it.price >= 0 /\ it.subtotal >= 0

\* schemas.SaleItem field constraints
ValidSaleItem(it) == it.price >= 0 /\ it.quantity >= 1 /\ it.subtotal >= 0

\* schemas.Sale field constraints
ValidSale(s) == s.total >= 0 /\ s.paid >= 0 /\ s.change >= 0

\* faulty variant: "$set" in place of "$inc"
IncStockSet(ps, i, delta) == [ps EXCEPT ![i].stock = delta]

\* faulty variant: the store refuses to take a stock below zero
IncStockClamped(ps, i, delta) ==
    [ps EXCEPT ![i].stock = IF @ + delta < 0 THEN 0 ELSE @ + delta]

\* {"$inc": {"stock": delta}} on the document at index i
IncStock(ps, i, delta) == [ps EXCEPT ![i].stock = @ + delta]

\* database.create_document(collection, doc): the new document's id ...
NewId(coll) == Len(coll) + 1

\* ... and the collection with the document inserted
CreateDocument(coll, doc) == Append(coll, doc)

\* ------------------------------------------------------------ call state
NoResp == [status |-> 0, detail |-> "none", id |-> 0, total |-> 0, paid |-> 0,
           change |-> 0, stock |-> 0, docs |-> <<>>]

Resp(status, detail) == [NoResp EXCEPT !.status = status, !.detail = detail]

\* One call: pc is the handler's position; sku, doc, oid, delta, q, limit,
\* lines, paid are the request as far as the handler has read it (tendered:
\* paid was read); items, total, k are create_sale's locals; pre is the
\* store as it was when the call began.
Idle == [pc |-> "idle", op |-> "none", sku |-> "", doc |-> <<>>, oid |-> 0,
         delta |-> 0, q |-> "", limit |-> 0,
         lines |-> <<>>, paid |-> 0, tendered |-> FALSE,
         items |-> <<>>, total |-> 0, k |-> 0, resp |-> NoResp,
         pre |-> [products |-> <<>>, sales |-> <<>>]]

\* the call record of an operation that starts now
Started(op) == [Idle EXCEPT !.op = op,
                            !.pre = [products |-> products, sales |-> sales]]

\* the handler has raised or returned: the response is on its way
Done(c, r) == [c EXCEPT !.pc = "done", !.resp = r]

Init ==
    /\ db \in BOOLEAN
    /\ products = <<>>
    /\ sales = <<>>
    /\ call = [p \in Procs |-> Idle]
    /\ ledger = <<>>

\* ------------------------------------------------------------- products
\* POST /api/products: the SKU lookup
CreateProduct(p, in) ==
    /\ call[p].pc = "idle"
    /\ Len(products) + Cardinality({q \in Procs : call[q].pc = "insert"})
         < MaxProducts
    /\ ValidProduct(in)
    /\ LET existing == IF db THEN FindBySku(in.sku) ELSE {}
           c == [Started("create_product") EXCEPT !.sku = in.sku, !.doc = in]
       IN  IF existing # {}
           THEN call' = [call EXCEPT ![p] = Done(c, Resp(400, "DuplicateKey"))]
           ELSE call' = [call EXCEPT ![p] = [c EXCEPT !.pc = "insert"]]
    /\ UNCHANGED <<db, products, sales, ledger>>

\* ... and create_document("product", product)
ProductInsert(p) ==
    /\ call[p].pc = "insert"
    /\ LET c == call[p]
           id == NewId(products)
       IN  IF ~db
           THEN /\ call' = [call EXCEPT ![p] = Done(c, Resp(500, "ConfigurationError"))]
                /\ UNCHANGED <<products, ledger>>
           ELSE /\ products' = CreateDocument(products, [c.doc EXCEPT !._id = id])
                /\ ledger' = Append(ledger, [created |-> c.doc.stock, adjusted |-> 0, lost |-> 0])
                /\ call' = [call EXCEPT ![p] =
                              Done(c, [Resp(200, "OK") EXCEPT !.id = id])]
    /\ UNCHANGED <<db, sales>>

\* POST /api/products/{product_id}/stock: the update_one
UpdateStock(p, pid, delta) ==
    /\ call[p].pc = "idle"
    /\ LET c == [Started("update_stock") EXCEPT !.oid = pid, !.delta = delta]
       IN  IF ~db
           THEN /\ call' = [call EXCEPT ![p] = Done(c, Resp(500, "ConfigurationError"))]
                /\ UNCHANGED <<products, ledger>>
           ELSE IF ~WellFormed(pid)
           THEN /\ call' = [call EXCEPT ![p] = Done(c, Resp(400, "InvalidReference"))]
                /\ UNCHANGED <<products, ledger>>
           ELSE IF FindById(pid) = {}
           THEN /\ call' = [call EXCEPT ![p] = Done(c, Resp(404, "NotFound"))]
                /\ UNCHANGED <<products, ledger>>
           ELSE LET i == CHOOSE i \in FindById(pid) : TRUE
                IN  /\ products[i].stock + delta \in (0 - MaxStock) .. MaxStock
                    /\ products' = IncStock(products, i, delta)
                    /\ ledger' = [ledger EXCEPT ![i].adjusted = @ + delta]
                    /\ call' = [call EXCEPT ![p] =
                                  [c EXCEPT !.pc = "readback"]]
    /\ UNCHANGED <<db, sales>>

\* ... and the find_one whose result it returns
StockReadBack(p) ==
    /\ call[p].pc = "readback"
    /\ LET i == CHOOSE i \in FindById(call[p].oid) : TRUE
       IN  call' = [call EXCEPT ![p] =
                      Done(@, [Resp(200, "OK") EXCEPT !.id = products[i]._id,
                                                      !.stock = products[i].stock])]
    /\ UNCHANGED <<db, products, sales, ledger>>

\* ------------------------------------------------------------- listings
\* a field value with its letters in lower case ("$options": "i")
Lower(x) ==
    CASE x = "A1" -> "a1" [] x = "B2" -> "b2" [] x = "Pen" -> "pen"
      [] OTHER -> x

\* {"$regex": q, "$options": "i"} on name and sku, for a query that is a
\* whole field value (the products carry no barcode)
Matches(q, prod) == Lower(prod.name) = q \/ Lower(prod.sku) = q

\* faulty variant: the listing forgets the "active" filter
ListFilterAll(q, prod) == q # "" => Matches(q, prod)

\* filter_dict = {"active": True}, plus the "$or" of the matches if q
ListFilter(q, prod) == prod.active /\ (q # "" => Matches(q, prod))

\* database.get_documents(collection, filter, limit): the most recent
\* `limit` documents
LastN(coll, n) ==
    IF Len(coll) <= n THEN coll ELSE SubSeq(coll, Len(coll) - n + 1, Len(coll))

\* GET /api/products
ListProducts(p, q) ==
    /\ call[p].pc = "idle"
    /\ LET c == [Started("list_products") EXCEPT !.q = q]
           Keep(d) == ListFilter(q, d)
       IN  IF ~db
           THEN call' = [call EXCEPT ![p] = Done(c, Resp(500, "ConfigurationError"))]
           ELSE call' = [call EXCEPT ![p] =
                           Done(c, [Resp(200, "OK") EXCEPT
                                      !.docs = SelectSeq(products, Keep)])]
    /\ UNCHANGED <<db, products, sales, ledger>>

\* GET /api/sales
ListSales(p, limit) ==
    /\ call[p].pc = "idle"
    /\ LET c == [Started("list_sales") EXCEPT !.limit = limit]
       IN  IF ~db
           THEN call' = [call EXCEPT ![p] = Done(c, Resp(500, "ConfigurationError"))]
           ELSE call' = [call EXCEPT ![p] =
                           Done(c, [Resp(200, "OK") EXCEPT
                                      !.docs = LastN(sales, limit)])]
    /\ UNCHANGED <<db, products, sales, ledger>>

\* the response leaves the server: the call is over
Respond(p) ==
    /\ call[p].pc = "done"
    /\ call' = [call EXCEPT ![p] = Idle]
    /\ UNCHANGED <<db, products, sales, ledger>>

\* ----------------------------------------------------------------- sales
\* POST /api/sales: entry, before the first line is read
SaleBegin(p) ==
    /\ call[p].pc = "idle"
    /\ Len(sales) < MaxSales
    /\ LET c == Started("create_sale")
       IN  IF ~db
           THEN call' = [call EXCEPT ![p] = Done(c, Resp(500, "ConfigurationError"))]
           ELSE call' = [call EXCEPT ![p] = [c EXCEPT !.pc = "build"]]
    /\ UNCHANGED <<db, products, sales, ledger>>

\* the SaleItem built for one request line from the product document read
MakeItem(prod, qty) ==
    [product_id |-> prod._id, name |-> prod.name, sku |-> prod.sku,
     price |-> prod.price, quantity |-> qty,
     subtotal |-> Subtotal(prod.price, qty)]

\* one pass of the loop over request.items
SaleLine(p, line) ==
    /\ call[p].pc = "build"
    /\ Len(call[p].lines) < MaxLines
    /\ LET c == [call[p] EXCEPT !.lines = Append(@, line)]
           pid == line.product_id
           qty == line.quantity
           found == FindActive(pid)
       IN  IF ~WellFormed(pid)
           THEN call' = [call EXCEPT ![p] = Done(c, Resp(400, "InvalidReference"))]
           ELSE IF found = {}
           THEN call' = [call EXCEPT ![p] = Done(c, Resp(404, "NotFound"))]
           ELSE LET prod == products[CHOOSE i \in found : TRUE]
                    item == MakeItem(prod, qty)
                IN  IF Insufficient(prod, qty)
                    THEN call' = [call EXCEPT ![p] =
                                    Done(c, Resp(400, "InsufficientStock"))]
                    ELSE IF ~ValidSaleItem(item)
                    THEN call' = [call EXCEPT ![p] =
                                    Done(c, Resp(500, "ValidationError"))]
                    ELSE call' = [call EXCEPT ![p] =
                                    [c EXCEPT !.items = Append(@, item),
                                              !.total = @ + item.subtotal]]
    /\ UNCHANGED <<db, products, sales, ledger>>

\* faulty variant: the change field is given the amount paid
MakeSaleChangeIsPaid(items, total, paid, change) ==
    [items |-> items, total |-> total, paid |-> paid, change |-> paid]

\* the Sale document built once the loop has ended
MakeSale(items, total, paid, change) ==
    [items |-> items, total |-> total, paid |-> paid, change |-> change]

\* faulty variant: a failed insert is swallowed and the deduction loop runs
AfterInsertSwallowed(c, stored, r) ==
    [c EXCEPT !.pc = "deduct", !.k = 1, !.resp = r]

\* create_document("sale", sale) has returned (stored) or raised: the handler
\* goes on to the deduction loop, or the exception ends the call
AfterInsert(c, stored, r) ==
    IF stored
    THEN [c EXCEPT !.pc = "deduct", !.k = 1, !.resp = r]
    ELSE Done(c, Resp(500, "StorageError"))

\* after the loop: total, payment check, Sale, create_document("sale", sale)
SaleCheckout(p, paid, stored) ==
    /\ call[p].pc = "build"
    /\ LET c == [call[p] EXCEPT !.paid = paid, !.tendered = TRUE]
           total == FinalTotal(c.total)
       IN  IF Underpaid(paid, total)
           THEN /\ call' = [call EXCEPT ![p] =
                              Done(c, Resp(400, "PaymentInsufficient"))]
                /\ UNCHANGED sales
           ELSE \E change \in RoundDiff(paid, total) :
                  LET sale == MakeSale(c.items, total, paid, change)
                      r == [Resp(200, "OK") EXCEPT !.id = NewId(sales),
                                                   !.total = total,
                                                   !.paid = paid,
                                                   !.change = change]
                  IN  IF ~ValidSale(sale)
                      THEN /\ call' = [call EXCEPT ![p] =
                                         Done(c, Resp(500, "ValidationError"))]
                           /\ UNCHANGED sales
                      ELSE /\ sales' = IF stored THEN CreateDocument(sales, sale)
                                         ELSE sales
                           /\ call' = [call EXCEPT ![p] =
                                         AfterInsert([c EXCEPT !.total = total],
                                                     stored, r)]
    /\ UNCHANGED <<db, products, ledger>>

\* faulty variant: a failed decrement deletes the sale just written
OnDeductFailureRollback(ss) == SubSeq(ss, 1, Len(ss) - 1)

\* update_one raised inside the loop: nothing catches it, the sale stays
OnDeductFailure(ss) == ss

RECURSIVE Quantity(_, _)
\* the units of product id in a list of sale items
Quantity(items, id) ==
    IF items = <<>> THEN 0
    ELSE (IF Head(items).product_id = id THEN Head(items).quantity ELSE 0)
         + Quantity(Tail(items), id)

\* one pass of the loop "for it in items: update_one(... $inc stock -quantity)"
SaleDeduct(p, updated) ==
    /\ call[p].pc = "deduct"
    /\ call[p].k <= Len(call[p].items)
    /\ LET c == call[p]
           it == c.items[c.k]
           hit == FindById(it.product_id)
       IN  IF ~updated
           THEN /\ call' = [call EXCEPT ![p] = Done(c, Resp(500, "StorageError"))]
                /\ sales' = OnDeductFailure(sales)
                /\ ledger' = [i \in 1..Len(ledger) |->
                                [ledger[i] EXCEPT !.lost = @ +
                                   Quantity(SubSeq(c.items, c.k, Len(c.items)), i)]]
                /\ UNCHANGED products
           ELSE /\ products' = IF hit = {} THEN products
                               ELSE IncStock(products, CHOOSE i \in hit : TRUE,
                                             0 - it.quantity)
                /\ call' = [call EXCEPT ![p].k = @ + 1]
                /\ UNCHANGED <<sales, ledger>>
    /\ UNCHANGED db

\* return {"_id", "total", "paid", "change"}
SaleReturn(p) ==
    /\ call[p].pc = "deduct"
    /\ call[p].k > Len(call[p].items)
    /\ call' = [call EXCEPT ![p] = Done(@, @.resp)]
    /\ UNCHANGED <<db, products, sales, ledger>>

\* ----------------------------------------------------------- the system
\* a product as POSTed (the store assigns _id)
NewProduct(sku, price, stock, active) ==
    [_id |-> 0, name |-> "Pen", sku |-> sku, price |-> price, stock |-> stock,
     active |-> active]

ProductInputs ==
    {NewProduct("A1", 2500, 3, TRUE), NewProduct("A1", 2500, 2, TRUE),
     NewProduct("B2", 125, 3, TRUE), NewProduct("B2", 125, 3, FALSE)}

LineInputs == [product_id : PidInputs, quantity : Quantities]

\* no other call is in progress
Alone(p) == \A q \in Procs \ {p} : call[q].pc = "idle"

\* product creation and the sale workflow, one call at a time (one register)
Next ==
    \/ \E in \in ProductInputs : Alone(1) /\ CreateProduct(1, in)
    \/ Alone(1) /\ ProductInsert(1)
    \/ Alone(1) /\ SaleBegin(1)
    \/ \E line \in LineInputs : Alone(1) /\ SaleLine(1, line)
    \/ \E paid \in Paids, stored \in BOOLEAN : Alone(1) /\ SaleCheckout(1, paid, stored)
    \/ \E updated \in BOOLEAN : Alone(1) /\ SaleDeduct(1, updated)
    \/ Alone(1) /\ SaleReturn(1)
    \/ \E q \in Queries : Alone(1) /\ ListProducts(1, q)
    \/ \E limit \in Limits : Alone(1) /\ ListSales(1, limit)
    \/ Alone(1) /\ Respond(1)

Spec == Init /\ [][Next]_vars

\* product creation and manual stock adjustment, one call at a time
NextStock ==
    \/ \E in \in ProductInputs : Alone(1) /\ CreateProduct(1, in)
    \/ Alone(1) /\ ProductInsert(1)
    \/ \E pid \in PidInputs, delta \in Deltas : Alone(1) /\ UpdateStock(1, pid, delta)
    \/ Alone(1) /\ StockReadBack(1)
    \/ Alone(1) /\ Respond(1)

SpecStock == Init /\ [][NextStock]_vars

\* inputs of the overlapping calls
ConcProducts == {NewProduct("A1", 2500, 3, TRUE)}
ConcLines == [product_id : {1}, quantity : {2}]
ConcPaids == {10000}

\* the adjustments applied to product pid so far leave room for delta
CanAdjust(pid, delta) ==
    /\ pid \in 1..Len(ledger)
    /\ ledger[pid].adjusted + delta \in (0 - MaxAdjust)..MaxAdjust

\* every handler, with the calls of two clients overlapping at will
NextConc ==
    \/ \E p \in Procs, in \in ConcProducts : CreateProduct(p, in)
    \/ \E p \in Procs : ProductInsert(p)
    \/ \E p \in Procs, pid \in {1}, delta \in Deltas :
          CanAdjust(pid, delta) /\ UpdateStock(p, pid, delta)
    \/ \E p \in Procs : StockReadBack(p)
    \/ \E p \in Procs : SaleBegin(p)
    \/ \E p \in Procs, line \in ConcLines :
          call[p].lines = <<>> /\ SaleLine(p, line)
    \/ \E p \in Procs, paid \in ConcPaids, stored \in BOOLEAN :
          SaleCheckout(p, paid, stored)
    \/ \E p \in Procs, updated \in BOOLEAN : SaleDeduct(p, updated)
    \/ \E p \in Procs : SaleReturn(p)
    \/ \E p \in Procs : ListProducts(p, "")
    \/ \E p \in Procs : ListSales(p, 50)
    \/ \E p \in Procs : Respond(p)

SpecConc == Init /\ [][NextConc]_vars

\* --------------------------------------------------------------- claims
\* the call being served under Spec and SpecStock
cur == call[1]

\* the store as it was when that call began
before == cur.pre.products

SaleDone == cur.op = "create_sale" /\ cur.pc = "done"

SaleOk == SaleDone /\ cur.resp.status = 200

CallFailed(status, detail) ==
    cur.pc = "done" /\ cur.resp.status = status /\ cur.resp.detail = detail

StoreUntouched == products = before /\ sales = cur.pre.sales

\* a request line that names an active product of the store as it was
NamesActive(l) ==
    /\ l.product_id \in 1..Len(before)
    /\ before[l.product_id].active

LineValid(l) ==
    /\ NamesActive(l)
    /\ l.quantity >= 1
    /\ l.quantity <= before[l.product_id].stock

\* c is x rounded to a whole cent
NearestCent(x, c) == c % 10 = 0 /\ (c - x) \in -5..5

RECURSIVE SumRaw(_)
\* sum over the lines of price * quantity, not rounded
SumRaw(ls) ==
    IF ls = <<>> THEN 0
    ELSE before[Head(ls).product_id].price * Head(ls).quantity + SumRaw(Tail(ls))

RECURSIVE SumRounded(_)
\* sum over the lines of round(price * quantity, 2)
SumRounded(ls) ==
    IF ls = <<>> THEN 0
    ELSE Round2(before[Head(ls).product_id].price * Head(ls).quantity)
         + SumRounded(Tail(ls))

RECURSIVE SumSubtotals(_)
SumSubtotals(its) ==
    IF its = <<>> THEN 0 ELSE Head(its).subtotal + SumSubtotals(Tail(its))

RECURSIVE QtyFor(_, _)
\* the quantities of the lines that name product id, added up
QtyFor(ls, id) ==
    IF ls = <<>> THEN 0
    ELSE (IF Head(ls).product_id = id THEN Head(ls).quantity ELSE 0)
         + QtyFor(Tail(ls), id)

\* C1 as stated: a successful sale returns and persists
\* total = round(sum of the unrounded price_i * qty_i, 2),
\* change = round(paid - total, 2), and paid >= total.
C1_TotalOfUnroundedLines ==
    SaleOk =>
        LET sale == sales[cur.resp.id]
        IN  /\ cur.resp.total = Round2(SumRaw(cur.lines))
            /\ sale.total = cur.resp.total
            /\ sale.paid = cur.paid /\ cur.resp.paid = cur.paid
            /\ sale.change = cur.resp.change
            /\ NearestCent(cur.paid - cur.resp.total, cur.resp.change)
            /\ cur.paid >= cur.resp.total

\* C1 amended: a successful sale returns and persists
\* total = round(sum over the lines of round(price_i * qty_i, 2), 2),
\* change = paid - total rounded to the cent, and paid >= total.
C1_TotalOfRoundedLines ==
    SaleOk =>
        LET sale == sales[cur.resp.id]
        IN  /\ cur.resp.total = Round2(SumRounded(cur.lines))
            /\ sale.total = cur.resp.total
            /\ sale.paid = cur.paid /\ cur.resp.paid = cur.paid
            /\ sale.change = cur.resp.change
            /\ NearestCent(cur.paid - cur.resp.total, cur.resp.change)
            /\ cur.paid >= cur.resp.total

\* a successful sale of two lines whose unrounded products are midpoints
C1_Witness ==
    /\ SaleOk
    /\ Len(cur.lines) = 2
    /\ \A j \in 1..2 : before[cur.lines[j].product_id].price = 125
                       /\ cur.lines[j].quantity = 1
    /\ cur.resp.total = 240

\* C2 as stated: with stock changed by sales only and no interleaving, no
\* product's stock is ever negative.
C2_StockNeverNegative ==
    \A i \in 1..Len(products) : products[i].stock >= 0

\* C3: a line that asks for more than the stock of the product it names
\* makes the request fail with InsufficientStock (400); no stock is changed
\* and no sale is persisted.
C3_InsufficientStockChangesNothing ==
    cur.op = "create_sale" =>
        \A j \in 1..Len(cur.lines) :
            (NamesActive(cur.lines[j])
               /\ cur.lines[j].quantity > before[cur.lines[j].product_id].stock)
            => CallFailed(400, "InsufficientStock") /\ StoreUntouched

\* the second line asks for too much, after a first line that was valid
C3_Witness ==
    /\ SaleDone
    /\ Len(cur.lines) = 2
    /\ LineValid(cur.lines[1])
    /\ NamesActive(cur.lines[2])
    /\ cur.lines[2].quantity > before[cur.lines[2].product_id].stock
    /\ CallFailed(400, "InsufficientStock")

\* C4: after a successful sale every product's stock is its stock before
\* minus the quantities of the lines naming it, and nothing else of any
\* product has changed.
C4_StockDecreasesByQuantities ==
    SaleOk =>
        /\ Len(products) = Len(before)
        /\ \A i \in 1..Len(products) :
              products[i] =
                [before[i] EXCEPT !.stock = @ - QtyFor(cur.lines, before[i]._id)]

\* two lines name one product, another product is left alone
C4_Witness ==
    /\ SaleOk
    /\ Len(products) = 2
    /\ Len(cur.lines) = 2
    /\ cur.lines[1].product_id = cur.lines[2].product_id
    /\ products[cur.lines[1].product_id].stock
         = before[cur.lines[1].product_id].stock - 4

\* C5: a line naming a well-formed id that is absent or inactive makes the
\* request fail with NotFound (404), nothing is persisted or changed; no
\* persisted sale has a line for an inactive product.
C5_InactiveOrAbsentIsNotFound ==
    /\ cur.op = "create_sale" =>
         \A j \in 1..Len(cur.lines) :
            (cur.lines[j].product_id # BadId /\ ~NamesActive(cur.lines[j]))
            => CallFailed(404, "NotFound") /\ StoreUntouched
    /\ \A n \in 1..Len(sales) : \A j \in 1..Len(sales[n].items) :
         LET id == sales[n].items[j].product_id
         IN  id \in 1..Len(products) /\ products[id].active

\* the line names a product that is in the store, inactive, with stock
C5_Witness ==
    /\ SaleDone
    /\ CallFailed(404, "NotFound")
    /\ LET l == cur.lines[Len(cur.lines)]
       IN  /\ l.product_id \in 1..Len(before)
           /\ ~before[l.product_id].active
           /\ l.quantity \in 1..before[l.product_id].stock

\* C6: every line valid and paid < total: the request fails with
\* PaymentInsufficient (400), no stock is changed, no sale is persisted.
C6_UnderpaymentChangesNothing ==
    (cur.op = "create_sale" /\ cur.tendered
       /\ cur.paid < Round2(SumRounded(cur.lines)))
    => CallFailed(400, "PaymentInsufficient") /\ StoreUntouched

\* 5.00 tendered for 3 units at 2.50
C6_Witness ==
    /\ SaleDone
    /\ cur.tendered
    /\ Len(cur.lines) = 1 /\ LineValid(cur.lines[1])
    /\ cur.paid = 5000 /\ cur.total = 7500
    /\ CallFailed(400, "PaymentInsufficient")

\* the per-document facts C7 and its amendment share
SaleSums(s) ==
    /\ s.total = SumSubtotals(s.items)
    /\ s.paid >= s.total
    /\ s.total >= 0
    /\ s.change >= 0
    /\ \A j \in 1..Len(s.items) :
         s.items[j].subtotal = Round2(s.items[j].price * s.items[j].quantity)

\* C7 as stated: every stored sale has total = sum of subtotals,
\* change = paid - total, paid >= total, total >= 0, change >= 0 and
\* subtotal = price * quantity at 2 decimals.
C7_ChangeIsExactDifference ==
    \A n \in 1..Len(sales) :
        SaleSums(sales[n]) /\ sales[n].change = sales[n].paid - sales[n].total

\* C7 amended: ... change = paid - total rounded to 2 decimals ...
C7_ChangeIsRoundedDifference ==
    \A n \in 1..Len(sales) :
        /\ SaleSums(sales[n])
        /\ NearestCent(sales[n].paid - sales[n].total, sales[n].change)

\* a stored sale with items, paid with an amount that is no whole cent
C7_Witness ==
    \E n \in 1..Len(sales) :
        /\ sales[n].items # <<>>
        /\ sales[n].paid % 10 # 0
        /\ sales[n].total > 0

\* C8: whenever stock differs from what it was when the sale call began,
\* the call's sale document is in the store; and a call whose document was
\* not stored has failed and changed no stock.
C8_PersistedBeforeDeduction ==
    cur.op = "create_sale" =>
        /\ products # before =>
             /\ Len(sales) = Len(cur.pre.sales) + 1
             /\ SubSeq(sales, 1, Len(cur.pre.sales)) = cur.pre.sales
             /\ sales[Len(sales)].items = cur.items
        /\ (cur.tendered /\ cur.paid >= Round2(SumRounded(cur.lines))
              /\ sales = cur.pre.sales)
           => CallFailed(500, "StorageError") /\ products = before

\* between the first and the second decrement of a two-line sale
C8_Witness ==
    /\ cur.op = "create_sale"
    /\ cur.pc = "deduct"
    /\ cur.k = 2
    /\ Len(cur.items) = 2
    /\ products # before

\* C9: creating a product whose SKU some product has (active or not) fails
\* with DuplicateKey (400) and leaves the products as they were; with an
\* SKU no product has it succeeds and adds exactly one product.
C9_SkuUniqueAtCreation ==
    (cur.op = "create_product" /\ db) =>
        IF \E i \in 1..Len(before) : before[i].sku = cur.sku
        THEN CallFailed(400, "DuplicateKey") /\ StoreUntouched
        ELSE cur.pc = "done" =>
             /\ CallFailed(200, "OK")
             /\ Len(products) = Len(before) + 1
             /\ SubSeq(products, 1, Len(before)) = before
             /\ products[Len(products)].sku = cur.sku
             /\ products[Len(products)]._id = cur.resp.id
             /\ sales = cur.pre.sales

\* the SKU was held by an inactive product
C9_Witness ==
    /\ cur.op = "create_product"
    /\ CallFailed(400, "DuplicateKey")
    /\ \E i \in 1..Len(before) : before[i].sku = cur.sku /\ ~before[i].active

\* C10: a stock adjustment by delta sets the product's stock to old + delta
\* in one step, negative results included, and changes nothing else; an id
\* matching no product gives NotFound (404), a malformed one
\* InvalidReference (400), and both leave every product as it was.
C10_StockAdjustment ==
    (cur.op = "update_stock" /\ db) =>
        IF cur.oid = BadId
        THEN CallFailed(400, "InvalidReference") /\ StoreUntouched
        ELSE IF cur.oid \notin 1..Len(before)
        THEN CallFailed(404, "NotFound") /\ StoreUntouched
        ELSE /\ products = [before EXCEPT ![cur.oid].stock = @ + cur.delta]
             /\ sales = cur.pre.sales
             /\ cur.pc = "done" => /\ cur.resp.status = 200
                                   /\ cur.resp.stock = before[cur.oid].stock + cur.delta

\* a negative delta has taken a product's stock below zero
C10_Witness ==
    /\ cur.op = "update_stock"
    /\ cur.pc = "done"
    /\ cur.oid \in 1..Len(before)
    /\ Len(products) = 2
    /\ cur.delta < 0
    /\ products[cur.oid].stock < 0

\* C11: the listings change nothing in the store; what they return is
\* fixed by the store and the query alone (so a repeated listing with no
\* write in between returns the same); the product listing returns active
\* products only.
C11_ListingsArePureReads ==
    /\ cur.op = "list_products" =>
         /\ cur.pc = "done" /\ StoreUntouched
         /\ db => /\ cur.resp.status = 200
                  /\ LET Wanted(d) == d.active /\ (cur.q # "" => Matches(cur.q, d))
                     IN  cur.resp.docs = SelectSeq(products, Wanted)
                  /\ \A j \in 1..Len(cur.resp.docs) : cur.resp.docs[j].active
    /\ cur.op = "list_sales" =>
         /\ cur.pc = "done" /\ StoreUntouched
         /\ db => /\ cur.resp.status = 200
                  /\ LET n == Len(cur.resp.docs)
                     IN  /\ n = IF Len(sales) <= cur.limit THEN Len(sales)
                                 ELSE cur.limit
                         /\ cur.resp.docs = SubSeq(sales, Len(sales) - n + 1, Len(sales))

\* a listing of a store that holds an active and an inactive product
C11_Witness ==
    /\ cur.op = "list_products" /\ cur.pc = "done"
    /\ cur.q = ""
    /\ Len(products) = 2
    /\ \E i \in 1..2 : ~products[i].active
    /\ Len(cur.resp.docs) = 1

\* C12: the stock check of a sale is a point-in-time read that reserves
\* nothing: whenever a sale call of either client accepts a line, the quantity
\* is within the stock the store holds at that moment and the step leaves the
\* store as it was, so a second overlapping call reads the same stock value.
C12_CheckReadsAndReservesNothing ==
    [][\A p \in Procs :
         (/\ call[p].op = "create_sale"
          /\ call'[p].op = "create_sale"
          /\ Len(call'[p].items) > Len(call[p].items))
         => LET it == call'[p].items[Len(call'[p].items)]
            IN  /\ it.quantity <= products[it.product_id].stock
                /\ products' = products
                /\ sales' = sales]_vars

\* two overlapping sales of product 1, begun on the same stock, both persisted
\* and both deducted: their quantities sum above the stock there was, and the
\* stock is negative
C12_Witness ==
    /\ Len(sales) = 2
    /\ Len(products) = 1
    /\ ledger[1].adjusted = 0
    /\ \A p \in Procs :
         /\ call[p].op = "create_sale"
         /\ call[p].pc = "done"
         /\ call[p].resp.status = 200
         /\ call[p].pre.sales = <<>>
         /\ Len(call[p].pre.products) = 1
         /\ call[p].pre.products[1].stock = ledger[1].created
         /\ Len(call[p].items) = 1
    /\ call[1].items[1].quantity + call[2].items[1].quantity > ledger[1].created
    /\ products[1].stock < 0

\* C13: a failing sale request reports one error, that of its first failing
\* line: every line read before the last one passed all checks, nothing is read
\* after a failing line, the failing line's error is chosen in the order
\* malformed id (400 InvalidReference), absent or inactive product (404
\* NotFound), stock < quantity (400 InsufficientStock), and the payment is
\* looked at (PaymentInsufficient) only when every line passed.
C13_FirstFailingLineDecides ==
    cur.op = "create_sale" =>
      LET n == Len(cur.lines)
          failed == n > 0 /\ ~LineValid(cur.lines[n])
          last == cur.lines[n]
      IN  /\ \A j \in 1..(n - 1) : LineValid(cur.lines[j])
          /\ Len(cur.items) = IF failed THEN n - 1 ELSE n
          /\ failed =>
               /\ ~cur.tendered
               /\ StoreUntouched
               /\ IF last.product_id = BadId
                  THEN CallFailed(400, "InvalidReference")
                  ELSE IF ~NamesActive(last)
                  THEN CallFailed(404, "NotFound")
                  ELSE IF before[last.product_id].stock < last.quantity
                  THEN CallFailed(400, "InsufficientStock")
                  ELSE CallFailed(500, "ValidationError")
          /\ cur.resp.detail \in {"InvalidReference", "NotFound", "InsufficientStock"}
               => failed
          /\ CallFailed(400, "PaymentInsufficient") =>
               /\ cur.tendered
               /\ \A j \in 1..n : LineValid(cur.lines[j])

\* a first line that passes, then a line naming an inactive product with a
\* quantity of zero: the call ends with NotFound and only that
C13_Witness ==
    /\ cur.op = "create_sale"
    /\ Len(cur.lines) = 2
    /\ LineValid(cur.lines[1])
    /\ cur.lines[2].product_id \in 1..Len(before)
    /\ ~before[cur.lines[2].product_id].active
    /\ cur.lines[2].quantity = 0
    /\ CallFailed(404, "NotFound")

\* C14: in every reachable state, also when product creations of two clients
\* interleave, no two products of the store have the same SKU.
C14_SkuUniqueInStore ==
    \A i, j \in 1..Len(products) :
      i # j => products[i].sku # products[j].sku

\* C15: a persisted sale is never modified or removed: no step of any
\* operation (product creation, stock adjustment, sale creation, listing, a
\* failing decrement of the sale's own commit) changes or drops a document
\* that the sale collection holds.
C15_SalesAreImmutable ==
    [][\A n \in 1..Len(sales) :
         /\ Len(sales') >= n
         /\ sales'[n] = sales[n]]_vars

\* a sale call ended by a failing decrement of its own commit, its sale still
\* in the collection
C15_Witness ==
    /\ cur.op = "create_sale"
    /\ CallFailed(500, "StorageError")
    /\ cur.k >= 1
    /\ \E n \in 1..Len(sales) :
         /\ n > Len(cur.pre.sales)
         /\ sales[n].items = cur.items
         /\ sales[n].paid = cur.paid

RECURSIVE Sold(_, _)
\* the units of product id in all lines of the sales ss
Sold(ss, id) ==
    IF ss = <<>> THEN 0 ELSE Quantity(Head(ss).items, id) + Sold(Tail(ss), id)

\* no sale call is between persisting its sale and the end of its decrements
NoDeductInProgress == \A p \in Procs : call[p].pc # "deduct"

\* C16 as stated: whenever no sale call is between persisting its sale and
\* finishing its decrements, each product's stock is its stock at creation plus
\* the deltas of the adjustments applied to it minus the quantities of all
\* lines naming it in persisted sales.
C16_ConservationAsStated ==
    NoDeductInProgress =>
      \A i \in 1..Len(products) :
        products[i].stock =
          ledger[i].created + ledger[i].adjusted - Sold(sales, i)

\* C16: under any interleaving, whenever no sale call is between persisting
\* its sale and finishing its decrements, each product's stock is its stock at
\* creation plus the deltas of the adjustments applied to it minus the
\* quantities of the lines naming it in persisted sales, not counting the lines
\* whose decrement never ran because a store failure ended the deduction loop;
\* no concurrent sale or adjustment loses another's update.
C16_Conservation ==
    NoDeductInProgress =>
      \A i \in 1..Len(products) :
        products[i].stock =
          ledger[i].created + ledger[i].adjusted
            - (Sold(sales, i) - ledger[i].lost)

\* a product that has been adjusted and sold, one sale deducted and one whose
\* decrement failed, and no deduction in progress
C16_Witness ==
    /\ NoDeductInProgress
    /\ Len(sales) = 2
    /\ Len(products) >= 1
    /\ ledger[1].adjusted # 0
    /\ ledger[1].lost > 0
    /\ Sold(sales, 1) > ledger[1].lost

\* C17: every item of every persisted sale has quantity >= 1: a sale request
\* with a line whose quantity is zero or negative fails at that line with
\* nothing written and no stock changed, and no sale call ever leaves a
\* product with more stock than it had when the call began.
C17_QuantitiesAtLeastOne ==
    /\ \A n \in 1..Len(sales) : \A j \in 1..Len(sales[n].items) :
         sales[n].items[j].quantity >= 1
    /\ cur.op = "create_sale" =>
         /\ (\E j \in 1..Len(cur.lines) : cur.lines[j].quantity < 1) =>
              /\ cur.pc = "done"
              /\ cur.resp.status \in {400, 404, 500}
              /\ cur.lines[Len(cur.lines)].quantity < 1
              /\ Len(cur.items) = Len(cur.lines) - 1
              /\ StoreUntouched
         /\ \A i \in 1..Len(before) : products[i].stock <= before[i].stock

\* a second line with quantity zero naming an active product in stock: the
\* line item is refused and the call fails
C17_Witness ==
    /\ cur.op = "create_sale"
    /\ Len(cur.lines) = 2
    /\ NamesActive(cur.lines[2])
    /\ cur.lines[2].quantity = 0
    /\ before[cur.lines[2].product_id].stock > 0
    /\ CallFailed(500, "ValidationError")

\* a sale request with no lines has been through the payment check
EmptySaleTendered ==
    cur.op = "create_sale" /\ cur.tendered /\ cur.lines = <<>>

\* the empty sale was persisted with the given change and nothing else changed
EmptySalePersisted(change) ==
    /\ cur.resp.status = 200
    /\ cur.resp.total = 0
    /\ cur.resp.change = change
    /\ sales = Append(cur.pre.sales,
                      [items |-> <<>>, total |-> 0, paid |-> cur.paid,
                       change |-> change])
    /\ products = before

\* C18 as stated: a sale request with no lines and paid >= 0 that the store
\* accepts persists a sale with no items, total 0 and change equal to paid and
\* changes no stock; with paid < 0 it fails with PaymentInsufficient and
\* persists nothing.
C18_EmptySaleChangeIsPaid ==
    EmptySaleTendered =>
      IF cur.paid >= 0
      THEN CallFailed(500, "StorageError") \/ EmptySalePersisted(cur.paid)
      ELSE CallFailed(400, "PaymentInsufficient") /\ StoreUntouched

\* C18: a sale request with no lines and paid >= 0 that the store accepts
\* persists a sale with no items, total 0 and change equal to paid rounded to
\* a whole cent, and changes no stock; if the store refuses the insert the call
\* fails with nothing written; with paid < 0 it fails with PaymentInsufficient
\* and persists nothing.
C18_EmptySaleChangeIsRoundedPaid ==
    EmptySaleTendered =>
      IF cur.paid >= 0
      THEN \/ CallFailed(500, "StorageError") /\ StoreUntouched
           \/ \E change \in 0..cur.paid + 5 :
                NearestCent(cur.paid, change) /\ EmptySalePersisted(change)
      ELSE CallFailed(400, "PaymentInsufficient") /\ StoreUntouched

\* an empty sale paid 0.125: persisted with change 0.12
C18_Witness ==
    /\ EmptySaleTendered
    /\ cur.pc = "done"
    /\ cur.paid = 125
    /\ EmptySalePersisted(120)

====
